---- MODULE Spec2Model ----
(***************************************************************************)
(* Model of SteamReviewScraper.py: the review normalizer                   *)
(* (_normalize_review) and the cursor-driven pagination loop               *)
(* (fetch_all_steam_reviews_for_app).                                      *)
(*                                                                         *)
(* Python values are tagged records [t, s, n, b]: t is the dynamic type,   *)
(* s the text of a str (a sequence of one-character strings), n the value  *)
(* of an int or the size of a dict/list, b the value of a bool.  A key     *)
(* that is missing from a dict is the value PyAbsent.                      *)
(***************************************************************************)
EXTENDS Integers, Sequences, FiniteSets, TLC

\* ------------------------------------------------------------- Python values

PyAbsent == [t |-> "absent", s |-> <<>>, n |-> 0, b |-> FALSE]
PyNone == [t |-> "none", s |-> <<>>, n |-> 0, b |-> FALSE]
PyStr(chars) == [t |-> "str", s |-> chars, n |-> 0, b |-> FALSE]
PyInt(i) == [t |-> "int", s |-> <<>>, n |-> i, b |-> FALSE]
PyBool(v) == [t |-> "bool", s |-> <<>>, n |-> 0, b |-> v]
PyDict(size) == [t |-> "dict", s |-> <<>>, n |-> size, b |-> FALSE]
PyList(size) == [t |-> "list", s |-> <<>>, n |-> size, b |-> FALSE]

Digits == <<"0", "1", "2", "3", "4", "5", "6", "7", "8", "9">>

DigitChars == {Digits[i] : i \in 1..10}

DigitValue(c) == (CHOOSE i \in 1..10 : Digits[i] = c) - 1

RECURSIVE NatToChars(_)
NatToChars(i) ==
  IF i < 10 THEN <<Digits[i + 1]>>
  ELSE NatToChars(i \div 10) \o <<Digits[(i % 10) + 1]>>

\* repr of an int: decimal digits, "-" in front of a negative one
IntToChars(i) == IF i < 0 THEN <<"-">> \o NatToChars(-i) ELSE NatToChars(i)

RECURSIVE LStrip(_)
LStrip(chars) ==
  IF chars # <<>> /\ Head(chars) = " " THEN LStrip(Tail(chars)) ELSE chars

RECURSIVE RStrip(_)
RStrip(chars) ==
  IF chars # <<>> /\ chars[Len(chars)] = " "
    THEN RStrip(SubSeq(chars, 1, Len(chars) - 1))
    ELSE chars

RECURSIVE DigitsToNat(_)
DigitsToNat(chars) ==
  IF chars = <<>> THEN 0
  ELSE 10 * DigitsToNat(SubSeq(chars, 1, Len(chars) - 1))
         + DigitValue(chars[Len(chars)])

\* An exception raised by a conversion or an attribute lookup.
Raised(cls) == [ok |-> FALSE, v |-> PyAbsent, exc |-> cls]
Value(v) == [ok |-> TRUE, v |-> v, exc |-> ""]

\* The digits after the sign: at least one, and nothing but digits.
ParseDigits(sign, digs) ==
  IF digs = <<>> \/ \E i \in 1..Len(digs) : digs[i] \notin DigitChars
    THEN Raised("ValueError")
    ELSE Value(PyInt(sign * DigitsToNat(digs)))

ParseSigned(body) ==
  IF body # <<>> /\ Head(body) = "-" THEN ParseDigits(-1, Tail(body))
  ELSE IF body # <<>> /\ Head(body) = "+" THEN ParseDigits(1, Tail(body))
  ELSE ParseDigits(1, body)

\* int("..."): surrounding blanks stripped, an optional sign, then digits only
ParseInt(chars) == ParseSigned(RStrip(LStrip(chars)))

\* str(x)
str(x) ==
  CASE x.t = "str" -> x
    [] x.t = "int" -> PyStr(IntToChars(x.n))
    [] x.t = "bool" -> PyStr(IF x.b THEN <<"T", "r", "u", "e">>
                                     ELSE <<"F", "a", "l", "s", "e">>)
    [] x.t = "none" -> PyStr(<<"N", "o", "n", "e">>)
    [] x.t = "dict" -> PyStr(IF x.n = 0 THEN <<"{", "}">> ELSE <<"{", ".", "}">>)
    [] x.t = "list" -> PyStr(IF x.n = 0 THEN <<"[", "]">> ELSE <<"[", ".", "]">>)

\* bool(x): Python truthiness
bool(x) ==
  CASE x.t = "str" -> PyBool(x.s # <<>>)
    [] x.t = "int" -> PyBool(x.n # 0)
    [] x.t = "bool" -> x
    [] x.t = "none" -> PyBool(FALSE)
    [] x.t \in {"dict", "list"} -> PyBool(x.n # 0)

\* int(x)
int(x) ==
  CASE x.t = "int" -> Value(x)
    [] x.t = "bool" -> Value(PyInt(IF x.b THEN 1 ELSE 0))
    [] x.t = "str" -> ParseInt(x.s)
    [] x.t \in {"none", "dict", "list"} -> Raised("TypeError")

\* --------------------------------------------------------------- raw records

\* Keys of a raw review whose value goes through str(), is stored as it is,
\* goes through int(), goes through bool().
TopStrKeys == {"recommendationid", "weighted_vote_score"}
TopRawKeys == {"language", "review"}
TopIntKeys == {"timestamp_created", "timestamp_updated", "votes_up",
               "votes_funny", "comment_count"}
TopBoolKeys == {"voted_up", "steam_purchase", "received_for_free",
                "written_during_early_access"}
TopKeys == TopStrKeys \cup TopRawKeys \cup TopIntKeys \cup TopBoolKeys

AuthorIntKeys == {"num_games_owned", "num_reviews", "playtime_forever",
                  "playtime_last_two_weeks", "playtime_at_review"}
AuthorKeys == {"steamid"} \cup AuthorIntKeys

\* A raw review: its top-level keys, the value under "author", and the keys of
\* that value when it is a dict.
RawReview(top, author, adict) == [top |-> top, author |-> author, adict |-> adict]

\* d.get(key, default)
get(d, key, default) == IF d[key].t = "absent" THEN default ELSE d[key]

\* a = r.get("author", {}) or {}: what is falsy is replaced by {}
AuthorOf(r) ==
  IF r.author.t = "absent" \/ ~bool(r.author).b THEN PyDict(0) ELSE r.author

\* a.get(key, default): only a dict has .get
AuthorGet(r, key, default) ==
  IF AuthorOf(r).t # "dict" THEN Raised("AttributeError")
  ELSE IF AuthorOf(r).n = 0 THEN Value(default)
  ELSE Value(get(r.adict, key, default))

IntOf(g) == IF g.ok THEN int(g.v) ELSE g
StrOf(g) == IF g.ok THEN Value(str(g.v)) ELSE g

\* int(a.get(key, 0)) and str(a.get(key, ""))
AuthorInt(r, key) == IntOf(AuthorGet(r, key, PyInt(0)))
AuthorStr(r, key) == StrOf(AuthorGet(r, key, PyStr(<<>>)))

TopInt(r, key) == int(get(r.top, key, PyInt(0)))
TopStr(r, key) == Value(str(get(r.top, key, PyStr(<<>>))))
TopBool(r, key) == Value(bool(get(r.top, key, PyBool(FALSE))))
TopRaw(r, key) == Value(get(r.top, key, PyStr(<<>>)))

\* The keyword arguments of NormalizedReview(...), in evaluation order.
FieldNames ==
  <<"recommendationid", "steamid", "language", "review", "voted_up",
    "timestamp_created", "timestamp_updated", "author_num_games_owned",
    "author_num_reviews", "author_playtime_forever",
    "author_playtime_last_two_weeks", "author_playtime_at_review",
    "votes_up", "votes_funny", "weighted_vote_score", "comment_count",
    "steam_purchase", "received_for_free", "written_during_early_access">>

\* Declared type of each field of the dataclass.
StrFields == {"recommendationid", "steamid", "language", "review",
              "weighted_vote_score"}
BoolFields == {"voted_up", "steam_purchase", "received_for_free",
               "written_during_early_access"}
IntFields == {FieldNames[i] : i \in 1..Len(FieldNames)} \ (StrFields \cup BoolFields)

FieldExpr(r, name) ==
  CASE name = "recommendationid" -> TopStr(r, "recommendationid")
    [] name = "steamid" -> AuthorStr(r, "steamid")
    [] name = "language" -> TopRaw(r, "language")
    [] name = "review" -> TopRaw(r, "review")
    [] name = "voted_up" -> TopBool(r, "voted_up")
    [] name = "timestamp_created" -> TopInt(r, "timestamp_created")
    [] name = "timestamp_updated" -> TopInt(r, "timestamp_updated")
    [] name = "author_num_games_owned" -> AuthorInt(r, "num_games_owned")
    [] name = "author_num_reviews" -> AuthorInt(r, "num_reviews")
    [] name = "author_playtime_forever" -> AuthorInt(r, "playtime_forever")
    [] name = "author_playtime_last_two_weeks" ->
         AuthorInt(r, "playtime_last_two_weeks")
    [] name = "author_playtime_at_review" -> AuthorInt(r, "playtime_at_review")
    [] name = "votes_up" -> TopInt(r, "votes_up")
    [] name = "votes_funny" -> TopInt(r, "votes_funny")
    [] name = "weighted_vote_score" -> TopStr(r, "weighted_vote_score")
    [] name = "comment_count" -> TopInt(r, "comment_count")
    [] name = "steam_purchase" -> TopBool(r, "steam_purchase")
    [] name = "received_for_free" -> TopBool(r, "received_for_free")
    [] name = "written_during_early_access" ->
         TopBool(r, "written_during_early_access")

\* asdict(_normalize_review(r)): the 19 fields, or the first exception raised
\* while the arguments are evaluated.
FieldIndex(name) == CHOOSE i \in 1..Len(FieldNames) : FieldNames[i] = name

Construct(args, bad) ==
  IF bad # {}
    THEN [ok |-> FALSE, exc |-> args[CHOOSE i \in bad : \A j \in bad : i <= j].exc,
          rec |-> [name \in StrFields \cup IntFields \cup BoolFields |-> PyAbsent]]
    ELSE [ok |-> TRUE, exc |-> "",
          rec |-> [name \in StrFields \cup IntFields \cup BoolFields |->
                     args[FieldIndex(name)].v]]

Evaluated(args) == Construct(args, {i \in 1..Len(FieldNames) : ~args[i].ok})

_normalize_review(r) ==
  Evaluated([i \in 1..Len(FieldNames) |-> FieldExpr(r, FieldNames[i])])

\* ------------------------------------------------- the endpoint and the caller

\* Bounds of the model.
MaxPageLen == 2
MaxCap == 3

\* num_per_page must lie in [MinPerPage, MaxPerPage].
MinPerPage == 1
MaxPerPage == 100
DefaultAppId == 4134990
HttpOk == 200

Top(given) == [k \in TopKeys |-> IF k \in DOMAIN given THEN given[k] ELSE PyAbsent]
Author(given) ==
  [k \in AuthorKeys |-> IF k \in DOMAIN given THEN given[k] ELSE PyAbsent]
NoAuthorKeys == [k \in AuthorKeys |-> PyAbsent]

\* A complete, well-typed review as the endpoint serves it.
RecA ==
  RawReview(
    Top([recommendationid |-> PyStr(<<"7">>), language |-> PyStr(<<"e", "n">>),
         review |-> PyStr(<<"o", "k">>), voted_up |-> PyBool(TRUE),
         timestamp_created |-> PyInt(5), timestamp_updated |-> PyInt(6),
         votes_up |-> PyInt(2), votes_funny |-> PyInt(0),
         weighted_vote_score |-> PyStr(<<"0", ".", "5">>),
         comment_count |-> PyInt(0), steam_purchase |-> PyBool(TRUE),
         received_for_free |-> PyBool(FALSE),
         written_during_early_access |-> PyBool(FALSE)]),
    PyDict(6),
    Author([steamid |-> PyStr(<<"9">>), num_games_owned |-> PyInt(3),
            num_reviews |-> PyInt(1), playtime_forever |-> PyInt(40),
            playtime_last_two_weeks |-> PyInt(0),
            playtime_at_review |-> PyInt(30)]))

\* A sparse review: no author, most keys missing, coercible odd types.
RecB ==
  RawReview(
    Top([recommendationid |-> PyInt(12), voted_up |-> PyInt(1),
         timestamp_created |-> PyStr(<<"4", "2">>)]),
    PyAbsent, NoAuthorKeys)

\* A malformed review: null in an integer field.
RecX ==
  RawReview(
    Top([recommendationid |-> PyInt(13), timestamp_updated |-> PyNone]),
    PyAbsent, NoAuthorKeys)

RawRecords == {RecA, RecB, RecX}

SeqsUpTo(S, n) == UNION {[1..k -> S] : k \in 0..n}

\* The pages the endpoint serves: every page of complete and malformed reviews
\* up to the bound, and the pages of two that hold the sparse review.
Pages ==
  SeqsUpTo({RecA, RecX}, MaxPageLen) \cup {<<RecA, RecB>>, <<RecB, RecA>>, <<RecB, RecX>>}

StartCursor == "*"
Cursors == {StartCursor, "AB==", "CD=="}
\* The payload has no "cursor" key.
NoCursor == "<absent>"

\* What one GET can come back with: a served page, a payload that reports
\* failure, or a non-200 status.
Response(status, success, kind, reviews, next) ==
  [status |-> status, success |-> success, reviews_t |-> kind,
   reviews |-> reviews, cursor |-> next]

PageResponses ==
  {Response(HttpOk, 1, "list", p, c) : p \in Pages, c \in Cursors \cup {NoCursor}}
    \cup {Response(HttpOk, 1, k, <<>>, c) :
            k \in {"none", "absent"}, c \in Cursors \cup {NoCursor}}

FailureResponses ==
  {Response(HttpOk, 0, "list", p, c) :
     p \in {<<>>, <<RecA>>}, c \in {NoCursor, "AB=="}}
    \cup {Response(st, su, "list", <<>>, NoCursor) : st \in {204, 500}, su \in {0, 1}}

Responses == PageResponses \cup FailureResponses

\* Exceptions sess.get() itself raises.
TransportExceptions == {"ConnectionError", "Timeout"}

\* ---------------------------------------------------------------- the state

VARIABLES
  appid, num_per_page, include_raw, normalize, max_reviews, \* parameters
  language, review_type, purchase_type, filter_mode,        \* parameters: the
  day_range, filter_offtopic_activity,                      \* filters
  pc,                    \* "start", "loop", "done" (returned) or "raised"
  cursor, seen_cursors, normalized_reviews, raw_reviews,    \* locals
  result,                \* the returned dict, once pc = "done"
  error,                 \* the exception that left the function, once "raised"
  calls,                 \* external calls made so far: GETs and sleeps, in order
  responses              \* payloads received so far, in order

filters ==
  <<language, review_type, purchase_type, filter_mode, day_range, filter_offtopic_activity>>
params == <<appid, num_per_page, include_raw, normalize, max_reviews, filters>>
locals == <<cursor, seen_cursors, normalized_reviews, raw_reviews>>
vars == <<params, pc, locals, result, error, calls, responses>>

NoError == [cls |-> "", msg |-> ""]
Exception(cls, msg) == [cls |-> cls, msg |-> msg]

\* raise ValueError("num_per_page must be between 1 and 100")
NumPerPageError == Exception("ValueError", "num_per_page must be between")
\* raise SteamReviewsError(f"HTTP {resp.status_code}: ...")
HttpStatusError == Exception("SteamReviewsError", "HTTP")
\* raise SteamReviewsError(f"Steam returned success=...")
SuccessError == Exception("SteamReviewsError", "Steam returned success=")

\* The filters' defaults (the keyword defaults of the signature). day_range is
\* held as the decimal text the query string carries: its default is 2^63 - 1.
DefaultFilters ==
  [language |-> "all", review_type |-> "all", purchase_type |-> "all",
   filter_mode |-> "recent", day_range |-> "9223372036854775807",
   filter_offtopic_activity |-> 1]

\* A call that sets every filter.
ChosenFilters ==
  [language |-> "english", review_type |-> "positive", purchase_type |-> "steam",
   filter_mode |-> "updated", day_range |-> "30", filter_offtopic_activity |-> 0]

FilterConfigs == {DefaultFilters, ChosenFilters}

\* Faulty variant: the query is built from the defaults, not from the arguments.
ParamsDefaults(c) ==
  [json |-> 1, cursor |-> c, language |-> DefaultFilters.language,
   review_type |-> DefaultFilters.review_type,
   purchase_type |-> DefaultFilters.purchase_type,
   filter |-> DefaultFilters.filter_mode, day_range |-> DefaultFilters.day_range,
   num_per_page |-> MaxPerPage,
   filter_offtopic_activity |-> DefaultFilters.filter_offtopic_activity]

\* The query of one GET.
Params(c) ==
  [json |-> 1, cursor |-> c, language |-> language, review_type |-> review_type,
   purchase_type |-> purchase_type, filter |-> filter_mode, day_range |-> day_range,
   num_per_page |-> num_per_page,
   filter_offtopic_activity |-> filter_offtopic_activity]

\* result["request_params"]
RequestParams ==
  [language |-> language, review_type |-> review_type,
   purchase_type |-> purchase_type, filter |-> filter_mode, day_range |-> day_range,
   num_per_page |-> num_per_page,
   filter_offtopic_activity |-> filter_offtopic_activity]
GetCall(c) == [op |-> "get", params |-> Params(c)]
SleepCall == [op |-> "sleep", params |-> Params("")]

\* Faulty variant: the delay is taken before the cap is looked at.
ThrottledAlways(cs, capped) == Append(cs, SleepCall)

\* if <cap reached>: ...; break
\* time.sleep(sleep_seconds)
Throttled(cs, capped) == IF capped THEN cs ELSE Append(cs, SleepCall)

NoResult ==
  [appid |-> 0, request_params |-> [num_per_page |-> 0], count |-> 0,
   last_cursor |-> "", reviews |-> <<>>, has_raw |-> FALSE, raw_reviews |-> <<>>]

\* The result dict; "raw_reviews" is a key of it only when include_raw.
Envelope(cur, revs, raws) ==
  [appid |-> appid, request_params |-> RequestParams,
   count |-> Len(revs), last_cursor |-> cur, reviews |-> revs,
   has_raw |-> include_raw, raw_reviews |-> IF include_raw THEN raws ELSE <<>>]

\* Faulty variant: the lower bound is excluded.
ValidPerPageExclusive(n) == MinPerPage < n /\ n <= MaxPerPage

\* if not (1 <= num_per_page <= 100)
ValidPerPage(n) == MinPerPage <= n /\ n <= MaxPerPage

\* Faulty variant: the guard never finds the cursor.
SeenBeforeNever(c, seen) == FALSE

\* if cursor in seen_cursors
SeenBefore(c, seen) == c \in seen

\* data.get("reviews") or []
PageReviews(resp) == IF resp.reviews_t = "list" THEN resp.reviews ELSE <<>>

\* Faulty variant: the cursor is not advanced to the returned one.
NextCursorStale(resp, cur) == cur

\* Faulty variant: the returned cursor is URL-escaped once more before reuse.
NextCursorEscaped(resp, cur) ==
  CASE resp.cursor = NoCursor -> cur
    [] resp.cursor = "AB==" -> "AB%3D%3D"
    [] resp.cursor = "CD==" -> "CD%3D%3D"
    [] OTHER -> resp.cursor

\* data.get("cursor", cursor)
NextCursor(resp, cur) == IF resp.cursor = NoCursor THEN cur ELSE resp.cursor

\* Faulty variant: the success indicator is checked before the status.
OutcomeSuccessFirst(resp) ==
  IF resp.success # 1 THEN "upstream_error"
  ELSE IF resp.status # HttpOk THEN "http_error"
  ELSE IF PageReviews(resp) = <<>> THEN "empty"
  ELSE "page"

\* The checks made on a response, in the order the code makes them.
Outcome(resp) ==
  IF resp.status # HttpOk THEN "http_error"
  ELSE IF resp.success # 1 THEN "upstream_error"
  ELSE IF PageReviews(resp) = <<>> THEN "empty"
  ELSE "page"

\* Faulty variant: each record is inserted at the front of the page's records.
AppendedInFront(n, rest) ==
  IF ~n.ok THEN [ok |-> FALSE, out |-> <<>>, exc |-> n.exc]
  ELSE [ok |-> rest.ok, out |-> rest.out \o <<n.rec>>, exc |-> rest.exc]

\* for r in page_reviews: normalized_reviews.append(asdict(_normalize_review(r)))
\* The records appended before the first one that raises, and that exception.
Appended(n, rest) ==
  IF ~n.ok THEN [ok |-> FALSE, out |-> <<>>, exc |-> n.exc]
  ELSE [ok |-> rest.ok, out |-> <<n.rec>> \o rest.out, exc |-> rest.exc]

RECURSIVE NormalizeAll(_)
NormalizeAll(page) ==
  IF page = <<>> THEN [ok |-> TRUE, out |-> <<>>, exc |-> ""]
  ELSE Appended(_normalize_review(Head(page)), NormalizeAll(Tail(page)))

\* What the page adds to normalized_reviews.
Converted(page) ==
  IF normalize THEN NormalizeAll(page)
  ELSE [ok |-> TRUE, out |-> page, exc |-> ""]

\* Faulty variant: nothing is cut.
SliceNothing(seq, n) == seq

\* seq[:n], Python's slice: a negative n counts from the end
Slice(seq, n) ==
  LET stop == IF n >= 0 THEN n ELSE Len(seq) + n
      upto == IF stop < 0 THEN 0 ELSE IF stop > Len(seq) THEN Len(seq) ELSE stop
  IN  SubSeq(seq, 1, upto)

\* Faulty variant: the cap counts as reached only once it is exceeded.
CapReachedStrict(revs) == max_reviews.t = "int" /\ Len(revs) > max_reviews.n

\* max_reviews is not None and len(normalized_reviews) >= max_reviews
CapReached(revs) == max_reviews.t = "int" /\ Len(revs) >= max_reviews.n

\* ------------------------------------------------------------------ actions

Caps == {PyNone} \cup {PyInt(c) : c \in -1..MaxCap}

PerPageValues == {MinPerPage - 1, MinPerPage, MaxPerPage, MaxPerPage + 1}

\* The call fetch_all_steam_reviews_for_app(appid, ...) is entered.
Init ==
  /\ appid = DefaultAppId
  /\ num_per_page \in PerPageValues
  /\ include_raw \in BOOLEAN
  /\ normalize \in BOOLEAN
  /\ max_reviews \in Caps
  /\ \E f \in FilterConfigs :
       /\ language = f.language
       /\ review_type = f.review_type
       /\ purchase_type = f.purchase_type
       /\ filter_mode = f.filter_mode
       /\ day_range = f.day_range
       /\ filter_offtopic_activity = f.filter_offtopic_activity
  /\ pc = "start"
  /\ cursor = ""
  /\ seen_cursors = {}
  /\ normalized_reviews = <<>>
  /\ raw_reviews = <<>>
  /\ result = NoResult
  /\ error = NoError
  /\ calls = <<>>
  /\ responses = <<>>

\* Faulty variant: the failure is swallowed and what was accumulated is returned.
RaisePartial(exc) ==
  /\ pc' = "done"
  /\ error' = exc
  /\ result' = Envelope(cursor, normalized_reviews, raw_reviews)

\* An exception leaves the function: nothing is returned.
Raise(exc) ==
  /\ pc' = "raised"
  /\ error' = exc
  /\ result' = result

\* Faulty variant: the break is a continue, the loop is never left.
ReturnNever(cur, revs, raws) ==
  /\ pc' = pc
  /\ result' = result
  /\ error' = error

\* The loop is left and the result dict is built and returned.
Return(cur, revs, raws) ==
  /\ pc' = "done"
  /\ result' = Envelope(cur, revs, raws)
  /\ error' = error

\* num_per_page is out of range: ValueError before anything else.
RejectConfig ==
  /\ pc = "start"
  /\ ~ValidPerPage(num_per_page)
  /\ Raise(NumPerPageError)
  /\ UNCHANGED <<params, locals, calls, responses>>

\* num_per_page is in range: the session, the cursor and the lists are set up.
Enter ==
  /\ pc = "start"
  /\ ValidPerPage(num_per_page)
  /\ pc' = "loop"
  /\ cursor' = StartCursor
  /\ seen_cursors' = {}
  /\ normalized_reviews' = <<>>
  /\ raw_reviews' = <<>>
  /\ UNCHANGED <<params, result, error, calls, responses>>

\* if cursor in seen_cursors: break
LoopGuard ==
  /\ pc = "loop"
  /\ SeenBefore(cursor, seen_cursors)
  /\ Return(cursor, normalized_reviews, raw_reviews)
  /\ UNCHANGED <<params, locals, calls, responses>>

\* Faulty variant: only the latest cursor is remembered.
addLatest(seen, c) == {c}

\* seen_cursors.add(cursor)
add(seen, c) == seen \cup {c}

\* The head of an iteration that passes the guard: the cursor is recorded as
\* seen and one GET is sent with it.
Request ==
  /\ pc = "loop"
  /\ ~SeenBefore(cursor, seen_cursors)
  /\ seen_cursors' = add(seen_cursors, cursor)

\* sess.get raises (no connection, timeout): the exception propagates.
GetRaises ==
  /\ Request
  /\ \E cls \in TransportExceptions : Raise(Exception(cls, ""))
  /\ calls' = Append(calls, GetCall(cursor))
  /\ UNCHANGED <<params, cursor, normalized_reviews, raw_reviews, responses>>

\* resp.json() raises on a 200 whose body is not JSON.
JsonRaises ==
  /\ Request
  /\ Raise(Exception("JSONDecodeError", ""))
  /\ calls' = Append(calls, GetCall(cursor))
  /\ UNCHANGED <<params, cursor, normalized_reviews, raw_reviews, responses>>

\* resp.status_code != 200
HttpError ==
  /\ Request
  /\ Raise(HttpStatusError)
  /\ \E resp \in Responses :
       /\ responses' = Append(responses, resp)
       /\ Outcome(resp) = "http_error"
  /\ calls' = Append(calls, GetCall(cursor))
  /\ UNCHANGED <<params, cursor, normalized_reviews, raw_reviews>>

\* data.get("success") != 1
UpstreamError ==
  /\ Request
  /\ Raise(SuccessError)
  /\ \E resp \in Responses :
       /\ responses' = Append(responses, resp)
       /\ Outcome(resp) = "upstream_error"
  /\ calls' = Append(calls, GetCall(cursor))
  /\ UNCHANGED <<params, cursor, normalized_reviews, raw_reviews>>

\* if not page_reviews: cursor = next_cursor; break
EmptyPage ==
  /\ Request
  /\ \E resp \in Responses :
       /\ responses' = Append(responses, resp)
       /\ Outcome(resp) = "empty"
       /\ cursor' = NextCursor(resp, cursor)
       /\ Return(NextCursor(resp, cursor), normalized_reviews, raw_reviews)
  /\ calls' = Append(calls, GetCall(cursor))
  /\ UNCHANGED <<params, normalized_reviews, raw_reviews>>

\* Faulty variant: the raw list is never extended.
ExtendedNever(raws, page) == raws

\* if include_raw: raw_reviews.extend(page_reviews)
Extended(raws, page) == IF include_raw THEN raws \o page ELSE raws

\* A non-empty page is received: raw_reviews and normalized_reviews grow by it
\* (conv is what the page adds to normalized_reviews).
Accumulate(resp, conv) ==
  /\ raw_reviews' = Extended(raw_reviews, PageReviews(resp))
  /\ normalized_reviews' = normalized_reviews \o conv.out
  /\ IF conv.ok
       THEN cursor' = NextCursor(resp, cursor)
       ELSE cursor' = cursor /\ Raise(Exception(conv.exc, ""))

\* A record of the page makes _normalize_review raise: the exception propagates.
NormalizeRaises ==
  /\ Request
  /\ \E resp \in Responses :
       /\ responses' = Append(responses, resp)
       /\ Outcome(resp) = "page"
       /\ ~Converted(PageReviews(resp)).ok
       /\ Accumulate(resp, Converted(PageReviews(resp)))
  /\ calls' = Append(calls, GetCall(cursor))
  /\ UNCHANGED params

\* Faulty variant: the cap cuts the output collection only.
TruncateOutputOnly(revs, raws) ==
  /\ normalized_reviews' = Slice(revs, max_reviews.n)
  /\ raw_reviews' = raws

\* normalized_reviews = normalized_reviews[:max_reviews]
\* if include_raw: raw_reviews = raw_reviews[:max_reviews]
Truncate(revs, raws) ==
  /\ normalized_reviews' = Slice(revs, max_reviews.n)
  /\ raw_reviews' = IF include_raw THEN Slice(raws, max_reviews.n) ELSE raws

\* The page is appended and the cap is reached: truncate, break, return.
CapBreak ==
  /\ Request
  /\ \E resp \in Responses :
       /\ responses' = Append(responses, resp)
       /\ Outcome(resp) = "page"
       /\ Converted(PageReviews(resp)).ok
       /\ CapReached(normalized_reviews \o Converted(PageReviews(resp)).out)
       /\ cursor' = NextCursor(resp, cursor)
       /\ Truncate(normalized_reviews \o Converted(PageReviews(resp)).out,
                   Extended(raw_reviews, PageReviews(resp)))
  /\ Return(cursor', normalized_reviews', raw_reviews')
  /\ calls' = Throttled(Append(calls, GetCall(cursor)), TRUE)
  /\ UNCHANGED params

\* The page is appended, the cap is not reached: sleep and loop.
NextPage ==
  /\ Request
  /\ pc' = "loop"
  /\ \E resp \in Responses :
       /\ responses' = Append(responses, resp)
       /\ Outcome(resp) = "page"
       /\ Converted(PageReviews(resp)).ok
       /\ Accumulate(resp, Converted(PageReviews(resp)))
       /\ ~CapReached(normalized_reviews')
  /\ calls' = Throttled(Append(calls, GetCall(cursor)), FALSE)
  /\ UNCHANGED <<params, result, error>>

Next ==
  \/ RejectConfig
  \/ Enter
  \/ LoopGuard
  \/ GetRaises
  \/ JsonRaises
  \/ HttpError
  \/ UpstreamError
  \/ EmptyPage
  \/ NormalizeRaises
  \/ CapBreak
  \/ NextPage

Spec == Init /\ [][Next]_vars

\* ------------------------------------------- _normalize_review called alone

\* Values a key of a served review may hold.
SampleValues ==
  {PyAbsent, PyNone, PyStr(<<>>), PyStr(<<"7">>), PyStr(<<" ", "-", "1", "2", " ">>),
   PyStr(<<"a", "b">>), PyInt(0), PyInt(5), PyInt(-3), PyBool(TRUE), PyBool(FALSE),
   PyDict(0), PyList(1)}

KeyClasses == {"str", "raw", "int", "bool"}

KeyClass(k) ==
  CASE k \in TopStrKeys -> "str"
    [] k \in TopRawKeys -> "raw"
    [] k \in TopIntKeys -> "int"
    [] k \in TopBoolKeys -> "bool"

\* RecA with the keys of the classes in mask holding v instead.
TopWith(v, mask) ==
  [k \in TopKeys |-> IF KeyClass(k) \in mask THEN v ELSE RecA.top[k]]

\* The author of RecA, no author, or each author key holding v.
AuthorShapes(v) ==
  {[author |-> RecA.author, adict |-> RecA.adict],
   [author |-> IF v.t = "absent" THEN PyDict(0) ELSE PyDict(Cardinality(AuthorKeys)),
    adict |-> [k \in AuthorKeys |-> v]]}
    \cup {[author |-> a, adict |-> NoAuthorKeys] :
            a \in {PyAbsent, PyNone, PyDict(0), PyStr(<<>>), PyStr(<<"x">>),
                   PyList(1), PyInt(0)}}

NormInputs ==
  {RawReview(TopWith(v, mask), a.author, a.adict) :
     v \in SampleValues, mask \in SUBSET KeyClasses, a \in UNION {AuthorShapes(w) : w \in SampleValues}}

\* _normalize_review is about to be called on one raw review, held in
\* raw_reviews; its outcome goes to normalized_reviews, or to error.
NormInit ==
  /\ appid = DefaultAppId
  /\ num_per_page = MaxPerPage
  /\ include_raw = TRUE
  /\ normalize = TRUE
  /\ max_reviews = PyNone
  /\ \E f \in {DefaultFilters} :
       /\ language = f.language
       /\ review_type = f.review_type
       /\ purchase_type = f.purchase_type
       /\ filter_mode = f.filter_mode
       /\ day_range = f.day_range
       /\ filter_offtopic_activity = f.filter_offtopic_activity
  /\ pc = "normalize"
  /\ cursor = ""
  /\ seen_cursors = {}
  /\ normalized_reviews = <<>>
  /\ raw_reviews \in {<<r>> : r \in NormInputs}
  /\ result = NoResult
  /\ error = NoError
  /\ calls = <<>>
  /\ responses = <<>>

\* asdict(_normalize_review(r)) returns, or raises.
Normalize ==
  /\ pc = "normalize"
  /\ IF _normalize_review(raw_reviews[1]).ok
       THEN /\ pc' = "normalized"
            /\ normalized_reviews' = <<_normalize_review(raw_reviews[1]).rec>>
            /\ error' = error
       ELSE /\ pc' = "raised"
            /\ normalized_reviews' = normalized_reviews
            /\ error' = Exception(_normalize_review(raw_reviews[1]).exc, "")
  /\ UNCHANGED <<params, cursor, seen_cursors, raw_reviews, result, calls, responses>>

NormNext == Normalize

NormSpec == NormInit /\ [][NormNext]_vars

\* The loop is a sequential program: it takes its next step whenever it has one.
FairSpec == Spec /\ WF_vars(Next)

\* ------------------------------------------------------------------ history

GetCalls == SelectSeq(calls, LAMBDA c : c.op = "get")

LastResponse == responses[Len(responses)]

Served(resp) == Outcome(resp) \in {"page", "empty"}

\* The raw records of the pages received so far, in order.
RECURSIVE Flatten(_)
Flatten(rs) ==
  IF rs = <<>> THEN <<>>
  ELSE (IF rs[1].status = 200 /\ rs[1].success = 1 /\ rs[1].reviews_t = "list"
          THEN rs[1].reviews ELSE <<>>) \o Flatten(Tail(rs))

Fetched == Flatten(responses)

IsPrefix(a, b) == Len(a) <= Len(b) /\ a = SubSeq(b, 1, Len(a))

Terminated == pc \in {"done", "raised"}

\* ------------------------------------------------------------------- claims

\* C1 as stated: for any configured cap C, when the pages served hold more
\* than C records in total, the returned result has exactly C reviews and
\* count = C.
C1_AnyCap ==
  (pc = "done" /\ max_reviews.t = "int" /\ Len(Fetched) > max_reviews.n)
    => (Len(result.reviews) = max_reviews.n /\ result.count = max_reviews.n)

\* C1 amended: the same for any configured cap C >= 0.
C1_CapInvariant ==
  (pc = "done" /\ max_reviews.t = "int" /\ max_reviews.n >= 0
     /\ Len(Fetched) > max_reviews.n)
    => (Len(result.reviews) = max_reviews.n /\ result.count = max_reviews.n)

\* A run capped at 3 that received 4 records over two pages.
C1_Witness ==
  /\ pc = "done"
  /\ max_reviews = PyInt(3)
  /\ Len(responses) = 2
  /\ Len(Fetched) = 4
  /\ result.count = 3

\* C2: the last two pages received carry the same next-cursor.
SameCursorTwice ==
  /\ Len(responses) >= 2
  /\ Served(LastResponse)
  /\ LastResponse.cursor # NoCursor
  /\ LastResponse.cursor = responses[Len(responses) - 1].cursor

\* C2: once two consecutive pages have returned the same next-cursor, the run
\* terminates, no further request is sent (the repeated cursor is requested
\* once only), and a returned result holds the records of the pages fetched
\* until then and nothing else.
C2_LoopGuard ==
  /\ [][SameCursorTwice => calls' = calls]_vars
  /\ [](SameCursorTwice /\ pc = "done" =>
          /\ Len(GetCalls) = Len(responses)
          /\ \A i, j \in 1..Len(GetCalls) :
               GetCalls[i].params.cursor = GetCalls[j].params.cursor => i = j
          /\ IsPrefix(result.reviews, Converted(Fetched).out)
          /\ (~CapReached(Converted(Fetched).out)
                => result.reviews = Converted(Fetched).out))
  /\ (SameCursorTwice ~> Terminated)

\* Two non-empty pages both returned "AB==" and the run returned both.
C2_Witness ==
  /\ pc = "done"
  /\ SameCursorTwice
  /\ Len(responses) = 2
  /\ LastResponse.cursor = "AB=="
  /\ Outcome(LastResponse) = "page"
  /\ max_reviews = PyNone
  /\ result.count = 2 * MaxPageLen

\* C3: a num_per_page outside [1, 100] makes the call fail with the
\* configuration error (ValueError) without a single request, and a value
\* inside never fails that way.
C3_BoundsValidation ==
  /\ (pc # "start" /\ (num_per_page < 1 \/ num_per_page > 100))
       => (pc = "raised" /\ error = NumPerPageError /\ calls = <<>>)
  /\ (1 <= num_per_page /\ num_per_page <= 100) => error # NumPerPageError

C3_Witness ==
  /\ pc = "raised"
  /\ num_per_page = 101
  /\ error.cls = "ValueError"
  /\ calls = <<>>

\* C4: a successfully fetched page with no records ends the loop: the run
\* returns at once, nothing is added to reviews or raw_reviews, last_cursor is
\* the next-cursor that page returned, and nothing is requested afterwards.
C4_EmptyPage ==
  [][/\ pc # "done"
     /\ (pc = "loop" /\ responses' # responses
           /\ responses'[Len(responses')].status = 200
           /\ responses'[Len(responses')].success = 1
           /\ (responses'[Len(responses')].reviews_t # "list"
                 \/ responses'[Len(responses')].reviews = <<>>))
       => /\ pc' = "done"
          /\ normalized_reviews' = normalized_reviews
          /\ raw_reviews' = raw_reviews
          /\ result'.reviews = normalized_reviews
          /\ result'.raw_reviews = raw_reviews
          /\ result'.last_cursor =
               (IF responses'[Len(responses')].cursor = NoCursor
                  THEN cursor ELSE responses'[Len(responses')].cursor)
          /\ Len(calls') = Len(calls) + 1]_vars

\* After one page of records, an empty page that returned "CD==".
C4_Witness ==
  /\ pc = "done"
  /\ Len(responses) = 2
  /\ Outcome(LastResponse) = "empty"
  /\ LastResponse.cursor = "CD=="
  /\ result.last_cursor = "CD=="
  /\ result.count = 1
  /\ include_raw

\* Response i reports a failure: a status other than 200, or a payload whose
\* success indicator is not 1.
Failing(i) == responses[i].status # 200 \/ responses[i].success # 1

\* C5: when a fetch fails (non-200 status or success indicator not 1), after
\* any number of good pages, the call ends in an error: no result is returned,
\* nothing of what was accumulated is delivered, and no request follows the
\* failed one.
C5_NoPartialResults ==
  \A i \in 1..Len(responses) :
    Failing(i) =>
      /\ i = Len(responses)
      /\ pc = "raised"
      /\ error.cls # ""
      /\ result = NoResult
      /\ Len(GetCalls) = Len(responses)
      /\ calls[Len(calls)].op = "get"

\* The third fetch failed after two pages of records.
C5_Witness ==
  /\ pc = "raised"
  /\ Len(responses) = 3
  /\ Failing(3)
  /\ Len(normalized_reviews) = 2 * MaxPageLen
  /\ result = NoResult

\* The last GET got no usable response: sess.get or resp.json raised.
GetFailed == pc = "raised" /\ Len(GetCalls) > Len(responses)

\* C6 as stated: a payload whose success indicator is wrong gives a kind of
\* error distinct from the kind given by a failed HTTP call or a non-success
\* status.
C6_DistinctErrorKinds ==
  (pc = "raised" /\ responses # <<>> /\ LastResponse.status = 200
     /\ LastResponse.success # 1)
    => error.cls \notin ({HttpStatusError.cls} \cup TransportExceptions)

\* C6 amended: a status other than 200 raises SteamReviewsError("HTTP ..."),
\* whatever the payload says (the status is checked first); status 200 with a
\* success indicator other than 1 raises the same class with the message
\* "Steam returned success=..."; an exception of the HTTP call itself
\* propagates as it is; none of these is the ValueError of a bad num_per_page.
C6_ErrorTaxonomy ==
  /\ \A i \in 1..Len(responses) :
       /\ responses[i].status # 200
            => (pc = "raised" /\ error = Exception("SteamReviewsError", "HTTP"))
       /\ (responses[i].status = 200 /\ responses[i].success # 1)
            => (pc = "raised"
                  /\ error = Exception("SteamReviewsError", "Steam returned success="))
  /\ GetFailed => error.cls \in {"ConnectionError", "Timeout", "JSONDecodeError"}
  /\ calls # <<>> => error # NumPerPageError

\* A 500 whose payload also reports failure is reported as an HTTP error.
C6_Witness ==
  /\ pc = "raised"
  /\ responses # <<>>
  /\ LastResponse.status = 500
  /\ LastResponse.success = 0
  /\ error = HttpStatusError

\* C7: _normalize_review never raises, whatever the raw review holds, and so
\* no exception of a conversion ever ends a fetch.
C7_NormalizeTotal ==
  error # NumPerPageError => error.cls \notin {"TypeError", "ValueError", "AttributeError"}

\* The key of the author that an author-derived field is read from.
AuthorKeyOf(name) ==
  CASE name = "steamid" -> "steamid"
    [] name = "author_num_games_owned" -> "num_games_owned"
    [] name = "author_num_reviews" -> "num_reviews"
    [] name = "author_playtime_forever" -> "playtime_forever"
    [] name = "author_playtime_last_two_weeks" -> "playtime_last_two_weeks"
    [] name = "author_playtime_at_review" -> "playtime_at_review"

AuthorFields ==
  {"steamid", "author_num_games_owned", "author_num_reviews",
   "author_playtime_forever", "author_playtime_last_two_weeks",
   "author_playtime_at_review"}

\* What the raw review r holds for the field name (PyAbsent: nothing).
Source(r, name) ==
  IF name \in AuthorFields
    THEN IF r.author.t = "dict" THEN r.adict[AuthorKeyOf(name)] ELSE PyAbsent
    ELSE r.top[name]

\* C8: every record _normalize_review produces has the 19 fields, each of its
\* declared type; a string field that is present holds the string form of the
\* raw value ("language" and "review" included), an absent string field is "",
\* an absent integer field 0, an absent boolean field false.
C8_Schema ==
  pc = "normalized" =>
    /\ DOMAIN normalized_reviews[1] = StrFields \cup IntFields \cup BoolFields
    /\ Cardinality(DOMAIN normalized_reviews[1]) = 19
    /\ \A name \in StrFields :
         /\ normalized_reviews[1][name].t = "str"
         /\ normalized_reviews[1][name] =
              (IF Source(raw_reviews[1], name).t = "absent" THEN PyStr(<<>>)
               ELSE str(Source(raw_reviews[1], name)))
    /\ \A name \in IntFields :
         /\ normalized_reviews[1][name].t = "int"
         /\ Source(raw_reviews[1], name).t = "absent"
              => normalized_reviews[1][name] = PyInt(0)
    /\ \A name \in BoolFields :
         /\ normalized_reviews[1][name].t = "bool"
         /\ Source(raw_reviews[1], name).t = "absent"
              => normalized_reviews[1][name] = PyBool(FALSE)

\* The cap was not reached: there is none, or fewer records were served.
CapNotReached == max_reviews.t = "none" \/ Len(Fetched) < max_reviews.n

\* C9: with normalize off and include_raw on, and the cap not reached, the
\* returned reviews and raw_reviews are both, element for element and in
\* order, the raw records of the pages fetched; raw_reviews is a key of the
\* result exactly when include_raw is on.
C9_RawPassthrough ==
  pc = "done" =>
    /\ result.has_raw = include_raw
    /\ (~normalize /\ include_raw /\ CapNotReached)
         => (result.reviews = Fetched /\ result.raw_reviews = Fetched)

\* Two pages passed through raw, the malformed review among them.
C9_Witness ==
  /\ pc = "done"
  /\ ~normalize
  /\ include_raw
  /\ max_reviews = PyInt(MaxCap)
  /\ Len(responses) = 2
  /\ Len(Fetched) = MaxCap - 1
  /\ result.raw_reviews = result.reviews
  /\ result.reviews[1] = RecX
  /\ result.reviews[2] = RecA

\* The responses so far are those of the two-page scenario: "*" returned two
\* records and "AB==", then "AB==" returned no record and "AB==".
TwoPageScenario ==
  /\ responses # <<>>
  /\ Len(responses) <= 2
  /\ responses[1].status = 200 /\ responses[1].success = 1
  /\ responses[1].reviews_t = "list" /\ Len(responses[1].reviews) = 2
  /\ responses[1].cursor = "AB=="
  /\ Len(responses) = 2 =>
       /\ responses[2].status = 200 /\ responses[2].success = 1
       /\ responses[2].reviews_t = "list" /\ responses[2].reviews = <<>>
       /\ responses[2].cursor = "AB=="

\* C10: in the two-page scenario a fetch with no cap sends exactly the
\* requests "*" and "AB==", in that order, and returns count = 2,
\* last_cursor = "AB==" and the two records normalized, in input order.
C10_EndToEnd ==
  (max_reviews = PyNone /\ normalize /\ TwoPageScenario
     /\ Len(GetCalls) = Len(responses))
    => IF Len(responses) = 1 THEN pc = "loop"
       ELSE /\ pc = "done"
            /\ [i \in 1..Len(GetCalls) |-> GetCalls[i].params.cursor] = <<"*", "AB==">>
            /\ result.count = 2
            /\ result.last_cursor = "AB=="
            /\ result.reviews =
                 [i \in 1..2 |-> _normalize_review(responses[1].reviews[i]).rec]

\* The number of GETs among the first i calls.
GetsUpTo(i) == Len(SelectSeq(SubSeq(calls, 1, i), LAMBDA c : c.op = "get"))

LastCall == calls[Len(calls)]

\* C11 as stated: whichever way the loop ends, no delay happens after the last
\* fetch of a run.
C11_NoDelayAfterLastFetch ==
  (Terminated /\ calls # <<>>) => LastCall.op # "sleep"

\* C11 amended: every delay comes right after the fetch of a page that added
\* records without reaching the cap; a run that ends on an empty page, on the
\* cap or on an error ends with its last fetch, and a run that ends with a
\* delay after its last fetch is one the loop-guard ended.
C11_DelayPlacement ==
  /\ \A i \in 1..Len(calls) :
       calls[i].op = "sleep" =>
         /\ i > 1
         /\ calls[i - 1].op = "get"
         /\ GetsUpTo(i) <= Len(responses)
         /\ Outcome(responses[GetsUpTo(i)]) = "page"
         /\ ~CapReached(Converted(Flatten(SubSeq(responses, 1, GetsUpTo(i)))).out)
  /\ (pc = "raised" /\ calls # <<>>) => LastCall.op = "get"
  /\ (pc = "done" /\ (Outcome(LastResponse) = "empty" \/ CapReached(Converted(Fetched).out)))
       => LastCall.op = "get"
  /\ (pc = "done" /\ LastCall.op = "sleep") =>
       /\ Outcome(LastResponse) = "page"
       /\ \E i \in 1..Len(GetCalls) : GetCalls[i].params.cursor = result.last_cursor

\* A run the cap ended on its second page, with one delay, between the pages.
C11_Witness ==
  /\ pc = "done"
  /\ max_reviews = PyInt(MaxCap)
  /\ Len(GetCalls) = 2
  /\ Len(Fetched) > MaxCap
  /\ [i \in 1..Len(calls) |-> calls[i].op] = <<"get", "sleep", "get">>

\* C12: fetches are made one at a time (a GET is answered, or ends the run,
\* before the next is sent); the first GET carries the start cursor "*" and
\* every later GET carries, unchanged, the next-cursor the response to the
\* GET before it returned, that response being a successful one.
C12_CursorChaining ==
  /\ Len(responses) <= Len(GetCalls)
  /\ Len(GetCalls) <= Len(responses) + 1
  /\ Len(GetCalls) = Len(responses) + 1 => pc = "raised"
  /\ GetCalls # <<>> => GetCalls[1].params.cursor = "*"
  /\ \A i \in 2..Len(GetCalls) :
       /\ Outcome(responses[i - 1]) = "page"
       /\ responses[i - 1].cursor # NoCursor
       /\ GetCalls[i].params.cursor = responses[i - 1].cursor

\* Three GETs were sent: "*", then "AB==" and "CD==" as the pages returned them.
C12_Witness ==
  /\ Len(responses) = 3
  /\ [i \in 1..Len(GetCalls) |-> GetCalls[i].params.cursor] = <<"*", "AB==", "CD==">>
  /\ responses[1].cursor = "AB=="
  /\ responses[2].cursor = "CD=="

\* C13: the filters are never changed by the run; every GET carries the
\* configured language, review type, purchase type, paging mode, day range,
\* records-per-page and off-topic values, and the returned result echoes
\* exactly those values as its request_params.
C13_FiltersVerbatim ==
  /\ [][UNCHANGED params]_vars
  /\ [](\A i \in 1..Len(GetCalls) :
           /\ GetCalls[i].params.language = language
           /\ GetCalls[i].params.review_type = review_type
           /\ GetCalls[i].params.purchase_type = purchase_type
           /\ GetCalls[i].params.filter = filter_mode
           /\ GetCalls[i].params.day_range = day_range
           /\ GetCalls[i].params.num_per_page = num_per_page
           /\ GetCalls[i].params.filter_offtopic_activity = filter_offtopic_activity)
  /\ [](pc = "done" =>
          result.request_params =
            [language |-> language, review_type |-> review_type,
             purchase_type |-> purchase_type, filter |-> filter_mode,
             day_range |-> day_range, num_per_page |-> num_per_page,
             filter_offtopic_activity |-> filter_offtopic_activity])

\* A run with every filter set away from its default and one record per page
\* sent three GETs and returned.
C13_Witness ==
  /\ pc = "done"
  /\ language = "english" /\ day_range = "30" /\ filter_offtopic_activity = 0
  /\ num_per_page = MinPerPage
  /\ Len(GetCalls) = 3
  /\ GetCalls[3].params.filter = "updated"
  /\ result.request_params.purchase_type = "steam"

\* C14: whatever the pages hold and whatever cursors they return (the
\* endpoint has finitely many), with or without a cap, every run ends: it
\* returns a result or raises.
C14_Terminates == <>Terminated

\* With no cap, the cursors went round a cycle of length two back to "*" and
\* the loop-guard ended the run.
C14_Witness ==
  /\ pc = "done"
  /\ max_reviews = PyNone
  /\ Len(responses) = 3
  /\ responses[1].cursor = "AB=="
  /\ responses[2].cursor = "CD=="
  /\ responses[3].cursor = "AB=="
  /\ Outcome(LastResponse) = "page"
  /\ result.last_cursor = "AB=="

\* The first n elements of seq (all of it when it has fewer, none when n < 0).
FirstN(seq, n) ==
  SubSeq(seq, 1, IF n < 0 THEN 0 ELSE IF n > Len(seq) THEN Len(seq) ELSE n)

\* What a successful run is to return by the accumulation rule (Accumulated): the records
\* of the pages fetched, in fetch order and in page order, normalized when
\* normalize is on, cut to the first max_reviews of them once the cap is
\* reached.
Expected ==
  IF normalize THEN [i \in 1..Len(Fetched) |-> _normalize_review(Fetched[i]).rec]
  ELSE Fetched

Accumulated ==
  IF max_reviews # PyNone /\ Len(Expected) >= max_reviews.n
    THEN FirstN(Expected, max_reviews.n)
    ELSE Expected

\* C15 as stated: on successful return the output collection is the
\* concatenation of the (normalized or raw) records of the pages fetched, cut
\* to its first C elements when a cap C was reached, and count is its length.
C15_AccumulationAnyCap ==
  pc = "done" =>
    /\ result.reviews = Accumulated
    /\ result.count = Len(result.reviews)

\* C15 amended: the same for a run with no cap or with a cap C >= 0.
C15_AccumulationOrder ==
  (pc = "done" /\ (max_reviews = PyNone \/ max_reviews.n >= 0)) =>
    /\ result.reviews = Accumulated
    /\ result.count = Len(result.reviews)

\* A normalized run of two pages, the first holding two different records, cut
\* by the cap inside its second page.
C15_Witness ==
  /\ pc = "done"
  /\ normalize
  /\ max_reviews = PyInt(MaxCap)
  /\ Len(responses) = 2
  /\ responses[1].reviews = <<RecB, RecA>>
  /\ Len(Fetched) = MaxCap + 1
  /\ result.count = MaxCap
  /\ result.reviews[1] = _normalize_review(RecB).rec
  /\ result.reviews[2] = _normalize_review(RecA).rec
  /\ result.reviews[1] # result.reviews[2]

\* The records of the pages received before the last one.
FetchedBefore == Flatten(SubSeq(responses, 1, Len(responses) - 1))

\* C16: with a cap C >= 1, a GET is only ever sent while the output
\* collection holds fewer than C records; so in a returned result every page
\* but the last lies wholly below the cap, and the cap, looked at only after a
\* whole page is appended, cuts inside the last page at most.
C16_CapCheckPlacement ==
  /\ [][(calls' # calls /\ max_reviews # PyNone /\ max_reviews.n >= 1)
          => Len(normalized_reviews) < max_reviews.n]_vars
  /\ []((pc = "done" /\ max_reviews # PyNone /\ max_reviews.n >= 1) =>
          /\ Len(FetchedBefore) < max_reviews.n
          /\ Len(result.reviews) <= max_reviews.n
          /\ Len(result.reviews) >= Len(FetchedBefore))

\* The cap fell inside the second page: one record of it is returned, one cut.
C16_Witness ==
  /\ pc = "done"
  /\ max_reviews = PyInt(MaxCap)
  /\ Len(responses) = 2
  /\ Len(FetchedBefore) = MaxCap - 1
  /\ Len(Fetched) = MaxCap + 1
  /\ result.count = MaxCap

\* The cursors sent to the endpoint so far.
Requested == {GetCalls[i].params.cursor : i \in 1..Len(GetCalls)}

\* The cursor values the run has come across: the start cursor and those the
\* responses carried.
Encountered ==
  {StartCursor} \cup ({responses[i].cursor : i \in 1..Len(responses)} \ {NoCursor})

\* C17: no cursor is sent to the endpoint twice in a run; seen_cursors is
\* exactly the set of cursors sent so far; and the number of GETs is at most
\* the number of distinct cursor values come across, the start cursor included.
C17_NoCursorTwice ==
  /\ \A i, j \in 1..Len(GetCalls) :
       GetCalls[i].params.cursor = GetCalls[j].params.cursor => i = j
  /\ seen_cursors = Requested
  /\ Len(GetCalls) = Cardinality(seen_cursors)
  /\ Len(GetCalls) <= Cardinality(Encountered)

\* The endpoint sent the run back to the start cursor after two pages: the
\* three cursors seen are the three requested, and no fourth GET was sent.
C17_Witness ==
  /\ pc = "done"
  /\ Len(GetCalls) = 3
  /\ LastResponse.cursor = StartCursor
  /\ Outcome(LastResponse) = "page"
  /\ seen_cursors = Cursors

\* The next-cursor of the last page received, as the run reads it: the cursor
\* the payload carries, and the cursor just requested when it carries none.
LastNextCursor ==
  IF LastResponse.cursor = NoCursor
    THEN GetCalls[Len(GetCalls)].params.cursor
    ELSE LastResponse.cursor

\* C18: on every successful return, whether an empty page, the loop-guard or
\* the cap ended the loop, the last response is a successfully fetched page
\* and last_cursor is its next-cursor; on a stop by the cap this is the cursor
\* after the truncated page, not the one that fetched it.
C18_LastCursor ==
  pc = "done" =>
    /\ responses # <<>>
    /\ Len(GetCalls) = Len(responses)
    /\ Served(LastResponse)
    /\ result.last_cursor = LastNextCursor

\* The cap cut the second page; last_cursor is the cursor that page returned,
\* not the one it was requested with.
C18_Witness ==
  /\ pc = "done"
  /\ max_reviews = PyInt(MaxCap)
  /\ Len(responses) = 2
  /\ Len(Fetched) > MaxCap
  /\ GetCalls[2].params.cursor = "AB=="
  /\ LastResponse.cursor = "CD=="
  /\ result.last_cursor = "CD=="

\* C19: with include_raw on, after every page and in the returned result the
\* raw collection is as long as the output collection and the i-th output
\* record is the i-th raw record, normalized when normalize is on, the cap's
\* cut included; with include_raw off the raw collection stays empty and the
\* result has no raw_reviews.
C19_RawAligned ==
  pc \in {"loop", "done"} =>
    /\ include_raw =>
         /\ Len(raw_reviews) = Len(normalized_reviews)
         /\ \A i \in 1..Len(normalized_reviews) :
              normalized_reviews[i] =
                IF normalize THEN _normalize_review(raw_reviews[i]).rec
                ELSE raw_reviews[i]
    /\ ~include_raw => raw_reviews = <<>>
    /\ pc = "done" =>
         /\ result.has_raw = include_raw
         /\ result.reviews = normalized_reviews
         /\ result.raw_reviews = raw_reviews
         /\ Len(result.raw_reviews) = IF include_raw THEN result.count ELSE 0

\* Raw kept next to normalized records, both cut by the cap inside the
\* second page.
C19_Witness ==
  /\ pc = "done"
  /\ include_raw
  /\ normalize
  /\ max_reviews = PyInt(MaxCap)
  /\ Len(responses) = 2
  /\ Len(Fetched) = MaxCap + 1
  /\ Len(result.raw_reviews) = MaxCap
  /\ result.raw_reviews[1] = RecB
  /\ result.reviews[1] = _normalize_review(RecB).rec

\* The last GET was answered by a successful page that holds records and
\* carries no next-cursor.
PageWithoutCursor ==
  /\ responses # <<>>
  /\ Len(GetCalls) = Len(responses)
  /\ Outcome(LastResponse) = "page"
  /\ LastResponse.cursor = NoCursor

\* C20: a successful page with records and no next-cursor counts as having
\* returned the cursor just requested: its records are accumulated, the run
\* is left with nothing but the loop-guard's stop before it (no other GET),
\* and the result's last_cursor is the cursor of that last GET.
C20_MissingCursor ==
  PageWithoutCursor =>
    /\ pc \in {"loop", "done"}
    /\ cursor = GetCalls[Len(GetCalls)].params.cursor
    /\ pc = "loop" =>
         /\ cursor \in seen_cursors
         /\ normalized_reviews = Expected
    /\ pc = "done" =>
         /\ result.last_cursor = GetCalls[Len(GetCalls)].params.cursor
         /\ IsPrefix(result.reviews, Expected)
         /\ max_reviews = PyNone => result.reviews = Expected

====
